---- MODULE Spec2Model ----
(***************************************************************************)
(* Model of typeh v1.0.1 (src/lib/typeh.js): type classification (isType,  *)
(* toType), the type matcher (typeMatches), the validators (define,        *)
(* setType), the catalog-generated accessors and the fixed predicates.     *)
(*                                                                         *)
(* JavaScript strings are sequences of one-character strings, so that      *)
(* slice, split, toLowerCase and the regular expression of toType are      *)
(* computed, not assumed.  Numbers are IEEE classes: finite numbers are    *)
(* counted in hundredths (n = 150 is 1.5), plus NaN and the two infinities.*)
(***************************************************************************)
EXTENDS Integers, Sequences, FiniteSets

----------------------------------------------------------------------------
(* Bounds *)

\* finite numbers range over the quarters in [-MaxNum, MaxNum]
MaxNum == 2
\* number of pipe-separated candidates in a generated multi-type expression
MaxCands == 2
\* number of entries of a mapping handed to setType
MaxEntries == 3
\* number of assignments the embedding application makes to merged globals
MaxAssign == 2

----------------------------------------------------------------------------
(* String literals *)

S_int == <<"i","n","t">>
S_float == <<"f","l","o","a","t">>
S_string == <<"s","t","r","i","n","g">>
S_bool == <<"b","o","o","l">>
S_array == <<"a","r","r","a","y">>
S_object == <<"o","b","j","e","c","t">>
S_callable == <<"c","a","l","l","a","b","l","e">>
S_iterable == <<"i","t","e","r","a","b","l","e">>
S_mixed == <<"m","i","x","e","d">>
S_null == <<"n","u","l","l">>
S_false == <<"f","a","l","s","e">>
S_true == <<"t","r","u","e">>
S_undefined == <<"u","n","d","e","f","i","n","e","d">>
S_boolean == <<"b","o","o","l","e","a","n">>
S_number == <<"n","u","m","b","e","r">>
S_function == <<"f","u","n","c","t","i","o","n">>
S_symbol == <<"s","y","m","b","o","l">>
S_htmlelement == <<"h","t","m","l","e","l","e","m","e","n","t">>
S_NaN == <<"N","a","N">>
S_Infinity == <<"I","n","f","i","n","i","t","y">>
S_objectObject == <<"[","o","b","j","e","c","t"," ","O","b","j","e","c","t","]">>

\* constructor names and class tags of the host
N_Boolean == <<"B","o","o","l","e","a","n">>
N_Number == <<"N","u","m","b","e","r">>
N_String == <<"S","t","r","i","n","g">>
N_Function == <<"F","u","n","c","t","i","o","n">>
N_Array == <<"A","r","r","a","y">>
N_Date == <<"D","a","t","e">>
N_RegExp == <<"R","e","g","E","x","p">>
N_Object == <<"O","b","j","e","c","t">>
N_Error == <<"E","r","r","o","r">>
N_Symbol == <<"S","y","m","b","o","l">>
N_Map == <<"M","a","p">>
N_Set == <<"S","e","t">>
N_Foo == <<"F","o","o">>
N_Int == <<"I","n","t">>
N_HTMLElement == <<"H","T","M","L","E","l","e","m","e","n","t">>
N_HTMLDivElement == <<"H","T","M","L","D","i","v","E","l","e","m","e","n","t">>
N_Null == <<"N","u","l","l">>
N_Undefined == <<"U","n","d","e","f","i","n","e","d">>

----------------------------------------------------------------------------
(* String primitives of the host *)

Upper == <<"A","B","C","D","E","F","G","H","I","J","K","L","M",
           "N","O","P","Q","R","S","T","U","V","W","X","Y","Z">>
LowerAlpha == <<"a","b","c","d","e","f","g","h","i","j","k","l","m",
                "n","o","p","q","r","s","t","u","v","w","x","y","z">>
Digit == <<"0","1","2","3","4","5","6","7","8","9">>

Min(a, b) == IF a < b THEN a ELSE b
Max(a, b) == IF a > b THEN a ELSE b

LowerChar(ch) ==
  IF \E i \in 1..26 : Upper[i] = ch
  THEN LowerAlpha[CHOOSE i \in 1..26 : Upper[i] = ch]
  ELSE ch

\* String.prototype.toLowerCase
ToLowerCase(s) == [i \in 1..Len(s) |-> LowerChar(s[i])]

\* String.prototype.slice(from, to) for from >= 0; a negative to counts from the end
Slice(s, from, to) ==
  LET end == IF to < 0 THEN Max(Len(s) + to, 0) ELSE Min(to, Len(s))
  IN  SubSeq(s, from + 1, end)

\* String.prototype.slice(from)
SliceFrom(s, from) == SubSeq(s, from + 1, Len(s))

\* String.prototype.split(sep) for a one-character separator
RECURSIVE Split(_, _)
Split(s, sep) ==
  IF \A i \in 1..Len(s) : s[i] # sep
  THEN << s >>
  ELSE LET p == CHOOSE i \in 1..Len(s) :
                  s[i] = sep /\ \A j \in 1..(i - 1) : s[j] # sep
       IN  << SubSeq(s, 1, p - 1) >> \o Split(SubSeq(s, p + 1, Len(s)), sep)

IsDigit(ch) == \E i \in 1..10 : Digit[i] = ch
DigitVal(ch) == (CHOOSE i \in 1..10 : Digit[i] = ch) - 1
AllDigits(s) == \A i \in 1..Len(s) : IsDigit(s[i])

----------------------------------------------------------------------------
(* Numbers *)

NaN == [cls |-> "nan", n |-> 0]
PosInf == [cls |-> "inf", n |-> 0]
NegInf == [cls |-> "ninf", n |-> 0]
Fin(k) == [cls |-> "fin", n |-> k]

RECURSIVE Digits(_)
Digits(k) == IF k < 10 THEN << Digit[k + 1] >>
             ELSE Digits(k \div 10) \o << Digit[(k % 10) + 1] >>

\* Number::toString for the numbers of the model (decimal notation)
NumToString(x) ==
  IF x.cls = "nan" THEN S_NaN
  ELSE IF x.cls = "inf" THEN S_Infinity
  ELSE IF x.cls = "ninf" THEN << "-" >> \o S_Infinity
  ELSE LET a  == IF x.n < 0 THEN 0 - x.n ELSE x.n
           ip == a \div 100
           fp == a % 100
           fr == IF fp = 0 THEN << >>
                 ELSE IF fp % 10 = 0 THEN << ".", Digit[(fp \div 10) + 1] >>
                 ELSE << ".", Digit[(fp \div 10) + 1], Digit[(fp % 10) + 1] >>
       IN  (IF x.n < 0 THEN << "-" >> ELSE << >>) \o Digits(ip) \o fr

RECURSIVE DigitsValue(_)
DigitsValue(s) == IF Len(s) = 0 THEN 0
                  ELSE 10 * DigitsValue(SubSeq(s, 1, Len(s) - 1)) + DigitVal(s[Len(s)])

\* s is  -?digits*(.digits*)?  with at least one digit and at most two decimals
IsDecimalLiteral(s) ==
  LET t == IF Len(s) > 0 /\ s[1] = "-" THEN SliceFrom(s, 1) ELSE s
      parts == Split(t, ".")
  IN  /\ Len(parts) \in {1, 2}
      /\ \A i \in 1..Len(parts) : AllDigits(parts[i])
      /\ \E i \in 1..Len(parts) : Len(parts[i]) > 0
      /\ Len(parts) = 2 => Len(parts[2]) <= 2

DecimalValue(s) ==
  LET neg == Len(s) > 0 /\ s[1] = "-"
      t == IF neg THEN SliceFrom(s, 1) ELSE s
      parts == Split(t, ".")
      fr == IF Len(parts) = 2 THEN parts[2] ELSE << >>
      frv == IF Len(fr) = 0 THEN 0
             ELSE IF Len(fr) = 1 THEN 10 * DigitsValue(fr) ELSE DigitsValue(fr)
      v == 100 * DigitsValue(parts[1]) + frv
  IN  Fin(IF neg THEN 0 - v ELSE v)

\* ToNumber applied to a string without whitespace, exponent or radix prefix
StringToNumber(s) ==
  IF Len(s) = 0 THEN Fin(0)
  ELSE IF s = S_Infinity THEN PosInf
  ELSE IF s = << "-" >> \o S_Infinity THEN NegInf
  ELSE IF IsDecimalLiteral(s) THEN DecimalValue(s)
  ELSE NaN

\* parseFloat: the longest prefix that is a decimal literal
ParseFloat(s) ==
  IF \E k \in 1..Len(s) : IsDecimalLiteral(SubSeq(s, 1, k))
  THEN LET last == CHOOSE k \in 1..Len(s) :
                     /\ IsDecimalLiteral(SubSeq(s, 1, k))
                     /\ \A j \in (k + 1)..Len(s) : ~IsDecimalLiteral(SubSeq(s, 1, j))
       IN  DecimalValue(SubSeq(s, 1, last))
  ELSE IF Len(s) >= 8 /\ SubSeq(s, 1, 8) = S_Infinity THEN PosInf
  ELSE IF Len(s) >= 9 /\ SubSeq(s, 1, 9) = << "-" >> \o S_Infinity THEN NegInf
  ELSE NaN

\* x - y
Minus(x, y) ==
  IF x.cls = "nan" \/ y.cls = "nan" THEN NaN
  ELSE IF x.cls = "fin" /\ y.cls = "fin" THEN Fin(x.n - y.n)
  ELSE IF x.cls = y.cls THEN NaN
  ELSE IF x.cls = "inf" \/ y.cls = "ninf" THEN PosInf
  ELSE NegInf

----------------------------------------------------------------------------
(* Values of the host language *)

\* a property that the value does not have
Absent == [kind |-> "absent"]

\* kind is the typeof of the value, except that null has kind "null";
\* ctor is value.constructor.name (empty when the value has no constructor),
\* tag is the class of Object.prototype.toString, iter says that
\* value[Symbol.iterator] is a function, html that the value is an instance
\* of the host's HTMLElement, coll which keyed collection it is an instance of
PlainObject ==
  [kind |-> "object", ctor |-> N_Object, tag |-> N_Object, num |-> NaN,
   chars |-> << >>, bool |-> FALSE, iter |-> FALSE, nodeType |-> 0,
   html |-> FALSE, coll |-> "none", length |-> Absent]

Undefined == [PlainObject EXCEPT !.kind = "undefined", !.ctor = << >>, !.tag = N_Undefined]
Null == [PlainObject EXCEPT !.kind = "null", !.ctor = << >>, !.tag = N_Null]
BoolV(b) == [PlainObject EXCEPT !.kind = "boolean", !.ctor = N_Boolean, !.tag = N_Boolean, !.bool = b]
NumberV(x) == [PlainObject EXCEPT !.kind = "number", !.ctor = N_Number, !.tag = N_Number, !.num = x]
StringV(s) == [PlainObject EXCEPT !.kind = "string", !.ctor = N_String, !.tag = N_String,
                                  !.chars = s, !.iter = TRUE, !.length = NumberV(Fin(100 * Len(s)))]
SymbolV == [PlainObject EXCEPT !.kind = "symbol", !.ctor = N_Symbol, !.tag = N_Symbol]
FunctionV == [PlainObject EXCEPT !.kind = "function", !.ctor = N_Function, !.tag = N_Function,
                                 !.length = NumberV(Fin(0))]
ArrayV(k) == [PlainObject EXCEPT !.ctor = N_Array, !.tag = N_Array, !.iter = TRUE,
                                 !.length = NumberV(Fin(100 * k))]
MapV == [PlainObject EXCEPT !.ctor = N_Map, !.tag = N_Map, !.iter = TRUE, !.coll = "Map"]
SetV == [PlainObject EXCEPT !.ctor = N_Set, !.tag = N_Set, !.iter = TRUE, !.coll = "Set"]
DateV == [PlainObject EXCEPT !.ctor = N_Date, !.tag = N_Date]
RegExpV == [PlainObject EXCEPT !.ctor = N_RegExp, !.tag = N_RegExp]
\* new Foo() of a user class Foo, new Int() of a user class Int
FooV == [PlainObject EXCEPT !.ctor = N_Foo]
IntV == [PlainObject EXCEPT !.ctor = N_Int]
\* Object.create(null)
NullProtoV == [PlainObject EXCEPT !.ctor = << >>]
\* { [Symbol.iterator]: function }
IterObjV == [PlainObject EXCEPT !.iter = TRUE]
\* { length: L }
WithLength(L) == [PlainObject EXCEPT !.length = L]
\* { nodeType: 1 }
ElementLikeV == [PlainObject EXCEPT !.nodeType = 1]
\* document.createElement("div"), of a browser-like host
DivElementV == [PlainObject EXCEPT !.ctor = N_HTMLDivElement, !.tag = N_HTMLDivElement,
                                   !.nodeType = 1, !.html = TRUE]

FiniteNumbers == { Fin(25 * k) : k \in (0 - 4 * MaxNum)..(4 * MaxNum) }
Numbers == FiniteNumbers \cup {NaN, PosInf, NegInf}

Strings == { << >>, <<"F","o","o">>, <<"5">>, <<"y","e","s">>, <<"4","2">>,
             <<"3",".","1","4">>, <<"a","b","c">>, <<"-","1",".","5">> }

LengthValues == { NumberV(Fin(300)), NumberV(Fin(150)), NumberV(NaN), NumberV(PosInf),
                  NumberV(NegInf), StringV(<<"3">>), Null }

Primitives ==
  {Undefined, Null, BoolV(TRUE), BoolV(FALSE), SymbolV}
    \cup { NumberV(x) : x \in Numbers } \cup { StringV(s) : s \in Strings }

Objects ==
  {PlainObject, FunctionV, ArrayV(0), ArrayV(3), MapV, SetV, DateV, RegExpV,
   FooV, IntV, NullProtoV, IterObjV, ElementLikeV}
    \cup { WithLength(L) : L \in LengthValues }

\* the values that exist in a host; hasHTMLElement says that the global
\* HTMLElement is defined (a browser-like host)
Values(hasHTMLElement) ==
  Primitives \cup Objects \cup (IF hasHTMLElement THEN {DivElementV} ELSE {})

\* value == null
IsNullish(v) == v.kind \in {"null", "undefined"}

\* typeof value
Typeof(v) ==
  CASE v.kind = "null" -> S_object
    [] v.kind = "undefined" -> S_undefined
    [] v.kind = "boolean" -> S_boolean
    [] v.kind = "number" -> S_number
    [] v.kind = "string" -> S_string
    [] v.kind = "function" -> S_function
    [] v.kind = "symbol" -> S_symbol
    [] OTHER -> S_object

\* value + "" : StringOf of the value
StringOf(v) ==
  CASE v.kind = "null" -> S_null
    [] v.kind = "undefined" -> S_undefined
    [] v.kind = "boolean" -> (IF v.bool THEN S_true ELSE S_false)
    [] v.kind = "number" -> NumToString(v.num)
    [] v.kind = "string" -> v.chars
    [] OTHER -> S_objectObject

\* ToNumber of the value (objects of the model convert to NaN)
ToNumber(v) ==
  CASE v.kind = "number" -> v.num
    [] v.kind = "string" -> StringToNumber(v.chars)
    [] v.kind = "boolean" -> (IF v.bool THEN Fin(100) ELSE Fin(0))
    [] v.kind = "null" -> Fin(0)
    [] OTHER -> NaN

\* the value is truthy
Truthy(v) ==
  CASE v.kind \in {"null", "undefined"} -> FALSE
    [] v.kind = "boolean" -> v.bool
    [] v.kind = "number" -> ~(v.num.cls = "nan" \/ (v.num.cls = "fin" /\ v.num.n = 0))
    [] v.kind = "string" -> Len(v.chars) > 0
    [] OTHER -> TRUE

\* value.length
GetLength(v) == IF v.length = Absent THEN Undefined ELSE v.length

\* Object.prototype.toString.call(value)
ObjectToString(v) == <<"[","o","b","j","e","c","t"," ">> \o v.tag \o << "]" >>

\* isFinite(value)
isFinite(v) == ToNumber(v).cls = "fin"

\* isNaN of a number
isNaN(x) == x.cls = "nan"

\* Number.isInteger(value)
NumberIsInteger(v) == v.kind = "number" /\ v.num.cls = "fin" /\ v.num.n % 100 = 0

----------------------------------------------------------------------------
(* Type classifier *)

types == << S_int, S_float, S_string, S_bool, S_array, S_object, S_callable,
            S_iterable, S_mixed, S_null, S_false, S_true >>

\* the names whose class tag is entered in class2type
class2typeNames == << N_Boolean, N_Number, N_String, N_Function, N_Array,
                      N_Date, N_RegExp, N_Object, N_Error, N_Symbol >>

\* class2type[key], Absent when the key was never entered
class2type(key) ==
  IF \E i \in 1..Len(class2typeNames) :
       key = <<"[">> \o <<"o","b","j","e","c","t"," ">> \o class2typeNames[i] \o <<"]">>
  THEN ToLowerCase(class2typeNames[CHOOSE i \in 1..Len(class2typeNames) :
       key = <<"[">> \o <<"o","b","j","e","c","t"," ">> \o class2typeNames[i] \o <<"]">>])
  ELSE Absent

isType(obj) ==
  IF IsNullish(obj) THEN StringOf(obj)
  ELSE IF Typeof(obj) = S_object \/ Typeof(obj) = S_function
       THEN (IF class2type(ObjectToString(obj)) # Absent
             THEN class2type(ObjectToString(obj)) ELSE S_object)
       ELSE Typeof(obj)

\* /^-?\d*\.\d+$/.test(s)
rfloat(s) ==
  LET t == IF Len(s) > 0 /\ s[1] = "-" THEN SliceFrom(s, 1) ELSE s
  IN  \E p \in 1..Len(t) :
        /\ t[p] = "."
        /\ AllDigits(SubSeq(t, 1, p - 1))
        /\ p < Len(t)
        /\ AllDigits(SubSeq(t, p + 1, Len(t)))

\* toType without the finiteness guard of the float branch
toType_noFiniteGuard(obj) ==
  IF IsNullish(obj) THEN StringOf(obj)
  ELSE LET named == ToLowerCase(IF obj.ctor # << >> THEN obj.ctor
                                ELSE Slice(ObjectToString(obj), 8, -1))
           type == IF named = S_number THEN S_int ELSE named
       IN  IF type = S_int /\ (rfloat(StringOf(obj)) \/ ~NumberIsInteger(obj))
           THEN S_float
           ELSE type

toType(obj) ==
  IF IsNullish(obj) THEN StringOf(obj)
  ELSE LET named == ToLowerCase(IF obj.ctor # << >> THEN obj.ctor
                                ELSE Slice(ObjectToString(obj), 8, -1))
           type == IF named = S_number THEN S_int ELSE named
       IN  IF type = S_int /\ isFinite(obj)
              /\ (rfloat(StringOf(obj)) \/ ~NumberIsInteger(obj))
           THEN S_float
           ELSE type

----------------------------------------------------------------------------
(* Outcomes of a call: a normal return or a raised error *)

Ret(x) == [status |-> "return", value |-> x, error |-> Absent]
Throw(e) == [status |-> "throw", value |-> Absent, error |-> e]

M_head == <<"T","h","e"," ","v","a","l","u","e"," ","m","u","s","t"," ","b","e"," ",
            "o","f"," ","t","y","p","e"," ","[">>
M_mid == <<"]",","," ","[">>
M_tail == <<"]"," ","g","i","v","e","n",".">>
M_notDefined == <<" ","i","s"," ","n","o","t"," ","d","e","f","i","n","e","d">>

\* new Error(message)
Error(message) == [name |-> "Error", message |-> message]

\* the error of the host for a read of the undeclared identifier HTMLElement
ReferenceError == [name |-> "ReferenceError", message |-> N_HTMLElement \o M_notDefined]

----------------------------------------------------------------------------
(* Type matcher *)

\* the loop pass without the "mixed" alternative of the last rule
loopBody_noMixed(hasHTMLElement, candidate, obj, ofType) ==
  LET type == ToLowerCase(candidate)
      element == Truthy(obj) /\ obj.nodeType = 1 /\ type = S_htmlelement
  IN  IF element /\ ~hasHTMLElement
        THEN [act |-> "throw", matched |-> FALSE]
      ELSE IF element /\ obj.html
        THEN [act |-> "break", matched |-> TRUE]
      ELSE IF type = S_callable /\ ofType = S_function
        THEN [act |-> "break", matched |-> TRUE]
      ELSE IF type = S_iterable
        THEN [act |-> "break", matched |-> (~IsNullish(obj) /\ obj.iter)]
      ELSE IF (Typeof(obj) = S_boolean /\ type = StringOf(obj)) \/ type = Slice(ofType, 0, 4)
        THEN [act |-> "break", matched |-> TRUE]
      ELSE IF type = ofType \/ type = isType(obj)
        THEN [act |-> "break", matched |-> TRUE]
      ELSE [act |-> "continue", matched |-> FALSE]

\* the loop pass comparing the candidate with three characters of the refined type
loopBody_shortPrefix(hasHTMLElement, candidate, obj, ofType) ==
  LET type == ToLowerCase(candidate)
      element == Truthy(obj) /\ obj.nodeType = 1 /\ type = S_htmlelement
  IN  IF element /\ ~hasHTMLElement
        THEN [act |-> "throw", matched |-> FALSE]
      ELSE IF element /\ obj.html
        THEN [act |-> "break", matched |-> TRUE]
      ELSE IF type = S_callable /\ ofType = S_function
        THEN [act |-> "break", matched |-> TRUE]
      ELSE IF type = S_iterable
        THEN [act |-> "break", matched |-> (~IsNullish(obj) /\ obj.iter)]
      ELSE IF (Typeof(obj) = S_boolean /\ type = StringOf(obj)) \/ type = Slice(ofType, 0, 3)
        THEN [act |-> "break", matched |-> TRUE]
      ELSE IF (type = ofType \/ type = isType(obj)) \/ type = S_mixed
        THEN [act |-> "break", matched |-> TRUE]
      ELSE [act |-> "continue", matched |-> FALSE]

\* one pass of the loop of typeMatches over the candidate type:
\* act is "throw" (the host raises), "break" (the loop ends with matched)
\* or "continue" (the next candidate is tried)
loopBody(hasHTMLElement, candidate, obj, ofType) ==
  LET type == ToLowerCase(candidate)
      element == Truthy(obj) /\ obj.nodeType = 1 /\ type = S_htmlelement
  IN  IF element /\ ~hasHTMLElement
        THEN [act |-> "throw", matched |-> FALSE]
      ELSE IF element /\ obj.html
        THEN [act |-> "break", matched |-> TRUE]
      ELSE IF type = S_callable /\ ofType = S_function
        THEN [act |-> "break", matched |-> TRUE]
      ELSE IF type = S_iterable
        THEN [act |-> "break", matched |-> (~IsNullish(obj) /\ obj.iter)]
      ELSE IF (Typeof(obj) = S_boolean /\ type = StringOf(obj)) \/ type = Slice(ofType, 0, 4)
        THEN [act |-> "break", matched |-> TRUE]
      ELSE IF (type = ofType \/ type = isType(obj)) \/ type = S_mixed
        THEN [act |-> "break", matched |-> TRUE]
      ELSE [act |-> "continue", matched |-> FALSE]

\* for(type of types) from candidate i on, matched being the value so far
RECURSIVE typesLoop(_, _, _, _, _, _)
typesLoop(hasHTMLElement, cands, i, obj, ofType, matched) ==
  IF i > Len(cands) THEN Ret(matched)
  ELSE LET step == loopBody(hasHTMLElement, cands[i], obj, ofType)
       IN  IF step.act = "throw" THEN Throw(ReferenceError)
           ELSE IF step.act = "break" THEN Ret(step.matched)
           ELSE typesLoop(hasHTMLElement, cands, i + 1, obj, ofType, matched)

typeMatches(hasHTMLElement, type, obj) ==
  LET optinal == Slice(type, 0, 1) = << "?" >>
      rest == IF optinal THEN SliceFrom(type, 1) ELSE type
      matched == optinal /\ IsNullish(obj)
  IN  typesLoop(hasHTMLElement, Split(rest, "|"), 1, obj, toType(obj), matched)

----------------------------------------------------------------------------
(* Validators *)

define(hasHTMLElement, type, obj) ==
  LET m == typeMatches(hasHTMLElement, type, obj)
  IN  IF m.status = "throw" THEN m
      ELSE IF ~m.value
        THEN Throw(Error(M_head \o type \o M_mid \o toType(obj) \o M_tail))
      ELSE Ret(obj)

\* options is the mapping as the sequence of its entries in the order in
\* which for-in enumerates them; validated counts the calls of define
RECURSIVE setTypeFrom(_, _, _)
setTypeFrom(hasHTMLElement, options, i) ==
  IF i > Len(options) THEN [out |-> Ret(Undefined), validated |-> i - 1]
  ELSE LET r == define(hasHTMLElement, options[i].key, options[i].val)
       IN  IF r.status = "throw" THEN [out |-> r, validated |-> i]
           ELSE setTypeFrom(hasHTMLElement, options, i + 1)

setType(hasHTMLElement, options) == setTypeFrom(hasHTMLElement, options, 1)

----------------------------------------------------------------------------
(* Catalog-generated accessors: typeh[type], typeh["_" + type], typeh["is" + Type] *)

required(hasHTMLElement, type, obj) == define(hasHTMLElement, type, obj)

optional(hasHTMLElement, type, obj) == define(hasHTMLElement, << "?" >> \o type, obj)

isA(hasHTMLElement, type, obj) == typeMatches(hasHTMLElement, type, obj)

\* the labels for which an is-predicate is generated
IsLabels == { types[i] : i \in { j \in 1..Len(types) : types[j] # S_mixed } }

----------------------------------------------------------------------------
(* Fixed predicates.  They call isArray, isObject, isInteger, isInt, isFloat *)
(* and isString as free identifiers, which resolve to the properties that   *)
(* Object.assign merged onto the global object.                             *)

GlobalNames == {"isArray", "isObject", "isInteger", "isInt", "isFloat", "isString"}

\* what a global name is bound to: the function of typeh merged at startup,
\* or a function of the embedding application (one that returns true for
\* every argument, one that returns false)
Bindings == {"typeh", "alwaysTrue", "alwaysFalse"}

StartupGlobals == [name \in GlobalNames |-> "typeh"]

\* a call of the global function name(obj), own being the result of the
\* function of typeh
callGlobal(g, name, own) ==
  IF g[name] = "typeh" THEN own
  ELSE g[name] = "alwaysTrue"

isInt(g, has, obj) == callGlobal(g, "isInt", isA(has, S_int, obj).value)
isFloat(g, has, obj) == callGlobal(g, "isFloat", isA(has, S_float, obj).value)
isString(g, has, obj) == callGlobal(g, "isString", isA(has, S_string, obj).value)
isArray(g, has, obj) == callGlobal(g, "isArray", isA(has, S_array, obj).value)
isObject(g, has, obj) == callGlobal(g, "isObject", isA(has, S_object, obj).value)

typeh_isInteger(g, has, obj) == isInt(g, has, obj)

isInteger(g, has, obj) == callGlobal(g, "isInteger", typeh_isInteger(g, has, obj))

typeh_isCountable(g, has, obj) ==
  \/ isArray(g, has, obj)
  \/ obj.coll = "Map"
  \/ obj.coll = "Set"
  \/ (~IsNullish(obj) /\ isObject(g, has, obj) /\ isInteger(g, has, GetLength(obj)))

typeh_isDouble(g, has, obj) == isFloat(g, has, obj)

\* the host's TypeError for the conversion of a symbol to a string
TypeError == [name |-> "TypeError", message |-> << >>]

\* the only fixed predicate that can raise: parseFloat(obj) converts obj to a
\* string, which is reached for a symbol only when isInt or isString was replaced
typeh_isNumeric(g, has, obj) ==
  IF ~(isInt(g, has, obj) \/ isString(g, has, obj)) THEN Ret(FALSE)
  ELSE IF obj.kind = "symbol" THEN Throw(TypeError)
  ELSE Ret(~isNaN(Minus(ToNumber(obj), ParseFloat(StringOf(obj)))))

typeh_isLong(g, has, obj) == isInteger(g, has, obj) /\ NumberIsInteger(obj)

typeh_isScalar(g, has, obj) ==
  \/ typeMatches(has, S_string \o << "|" >> \o S_bool, obj).value
  \/ (Typeof(obj) = S_number /\ isFinite(obj))

typeh_isInfinite(g, has, obj) ==
  obj.kind = "number" /\ (obj.num = PosInf \/ obj.num = NegInf)

----------------------------------------------------------------------------
(* Inputs *)

ExtraLabels ==
  { S_boolean, S_htmlelement, N_HTMLElement, N_Int, S_undefined, S_function,
    S_number, S_symbol, <<"r","e","g","e","x","p">>, <<"f","o","o">>,
    <<"n","u","l","l","a","b","l","e">>, <<"s","t","r","i","n","g","s">>,
    <<"b","o","o","l","x">>, <<"f","l","o","a","t","s">>, <<"a","r","r","a">>, << >> }

CatalogLabels == { types[i] : i \in 1..Len(types) }

SingleLabels == CatalogLabels \cup ExtraLabels

\* the labels that multi-type expressions are built from
PairLabels == { S_int, S_string, S_iterable, N_HTMLElement, S_object, S_mixed }

\* Array.prototype.join("|")
RECURSIVE Join(_)
Join(labels) ==
  IF Len(labels) = 0 THEN << >>
  ELSE IF Len(labels) = 1 THEN labels[1]
  ELSE labels[1] \o << "|" >> \o Join(SubSeq(labels, 2, Len(labels)))

BareExprs ==
  SingleLabels \cup UNION { { Join(f) : f \in [1..k -> PairLabels] } : k \in 2..MaxCands }

Exprs == BareExprs \cup { << "?" >> \o e : e \in BareExprs }

MapKeys == { S_string, << "?" >> \o S_int, S_bool, N_HTMLElement }
MapVals == { StringV(<<"F","o","o">>), Null, BoolV(TRUE), StringV(<<"y","e","s">>), ElementLikeV }

\* the mappings of at most MaxEntries entries, as entry sequences with distinct keys
Mappings ==
  UNION { { m \in [1..k -> [key : MapKeys, val : MapVals]] :
              \A i, j \in 1..k : i # j => m[i].key # m[j].key } : k \in 0..MaxEntries }

----------------------------------------------------------------------------
(* State *)

VARIABLES
  hasHTMLElement,  \* the host defines the global HTMLElement
  globals,         \* what the global names used by the fixed predicates are bound to
  assigns,         \* number of assignments made to those names
  call             \* the last call of the library and its outcome

vars == << hasHTMLElement, globals, assigns, call >>

NoCall == [op |-> "none", type |-> << >>, obj |-> Undefined, options |-> << >>,
           out |-> Ret(Undefined), validated |-> 0]

Called(op, type, obj, out) ==
  [op |-> op, type |-> type, obj |-> obj, options |-> << >>, out |-> out, validated |-> 0]

\* the library is loaded: accessors generated, typeh merged onto the global object
Init ==
  /\ hasHTMLElement \in BOOLEAN
  /\ globals = StartupGlobals
  /\ assigns = 0
  /\ call = NoCall

Idle == call.op = "none"

Same == UNCHANGED << hasHTMLElement, globals, assigns >>

----------------------------------------------------------------------------
(* Calls of the library made by the embedding application *)

CallToType ==
  /\ Idle
  /\ \E v \in Values(hasHTMLElement) :
       call' = Called("toType", << >>, v, Ret(toType(v)))
  /\ Same

CallIsType ==
  /\ Idle
  /\ \E v \in Values(hasHTMLElement) :
       call' = Called("isType", << >>, v, Ret(isType(v)))
  /\ Same

CallTypeMatches ==
  /\ Idle
  /\ \E e \in Exprs, v \in Values(hasHTMLElement) :
       call' = Called("typeMatches", e, v, typeMatches(hasHTMLElement, e, v))
  /\ Same

CallDefine ==
  /\ Idle
  /\ \E e \in Exprs, v \in Values(hasHTMLElement) :
       call' = Called("define", e, v, define(hasHTMLElement, e, v))
  /\ Same

CallSetType ==
  /\ Idle
  /\ \E m \in Mappings :
       LET r == setType(hasHTMLElement, m)
       IN  call' = [op |-> "setType", type |-> << >>, obj |-> Undefined, options |-> m,
                    out |-> r.out, validated |-> r.validated]
  /\ Same

CallRequired ==
  /\ Idle
  /\ \E t \in CatalogLabels, v \in Values(hasHTMLElement) :
       call' = Called("required", t, v, required(hasHTMLElement, t, v))
  /\ Same

CallOptional ==
  /\ Idle
  /\ \E t \in CatalogLabels, v \in Values(hasHTMLElement) :
       call' = Called("optional", t, v, optional(hasHTMLElement, t, v))
  /\ Same

CallIsA ==
  /\ Idle
  /\ \E t \in IsLabels, v \in Values(hasHTMLElement) :
       call' = Called("isA", t, v, isA(hasHTMLElement, t, v))
  /\ Same

CallIsCountable ==
  /\ Idle
  /\ \E v \in Values(hasHTMLElement) :
       call' = Called("isCountable", << >>, v, Ret(typeh_isCountable(globals, hasHTMLElement, v)))
  /\ Same

CallIsInteger ==
  /\ Idle
  /\ \E v \in Values(hasHTMLElement) :
       call' = Called("isInteger", << >>, v, Ret(typeh_isInteger(globals, hasHTMLElement, v)))
  /\ Same

CallIsDouble ==
  /\ Idle
  /\ \E v \in Values(hasHTMLElement) :
       call' = Called("isDouble", << >>, v, Ret(typeh_isDouble(globals, hasHTMLElement, v)))
  /\ Same

CallIsNumeric ==
  /\ Idle
  /\ \E v \in Values(hasHTMLElement) :
       call' = Called("isNumeric", << >>, v, typeh_isNumeric(globals, hasHTMLElement, v))
  /\ Same

CallIsLong ==
  /\ Idle
  /\ \E v \in Values(hasHTMLElement) :
       call' = Called("isLong", << >>, v, Ret(typeh_isLong(globals, hasHTMLElement, v)))
  /\ Same

CallIsScalar ==
  /\ Idle
  /\ \E v \in Values(hasHTMLElement) :
       call' = Called("isScalar", << >>, v, Ret(typeh_isScalar(globals, hasHTMLElement, v)))
  /\ Same

CallIsInfinite ==
  /\ Idle
  /\ \E v \in Values(hasHTMLElement) :
       call' = Called("isInfinite", << >>, v, Ret(typeh_isInfinite(globals, hasHTMLElement, v)))
  /\ Same

\* the embedding application takes the outcome and goes on
Resume ==
  /\ ~Idle
  /\ call' = NoCall
  /\ Same

\* the embedding application (or another script of the page) assigns one of
\* the names that Object.assign(global, typeh) merged onto the global object
AssignGlobal ==
  /\ Idle
  /\ assigns < MaxAssign
  /\ \E name \in GlobalNames, b \in Bindings \ {"typeh"} :
       globals' = [globals EXCEPT ![name] = b]
  /\ assigns' = assigns + 1
  /\ UNCHANGED << hasHTMLElement, call >>

\* the classifier, the matcher, the validators and the generated accessors
Next ==
  \/ CallToType
  \/ CallIsType
  \/ CallTypeMatches
  \/ CallDefine
  \/ CallSetType
  \/ CallRequired
  \/ CallOptional
  \/ CallIsA
  \/ Resume

Spec == Init /\ [][Next]_vars

\* the fixed predicates in a host whose global names can be reassigned
NextGlobals ==
  \/ AssignGlobal
  \/ CallIsCountable
  \/ CallIsInteger
  \/ CallIsDouble
  \/ CallIsNumeric
  \/ CallIsLong
  \/ CallIsScalar
  \/ CallIsInfinite
  \/ Resume

SpecGlobals == Init /\ [][NextGlobals]_vars

----------------------------------------------------------------------------
(* Properties *)

\* sub occurs in s
Contains(s, sub) ==
  \E k \in 0..(Len(s) - Len(sub)) : SubSeq(s, k + 1, k + Len(sub)) = sub

\* the last call returned x
Returned(x) == call.out.status = "return" /\ call.out.value = x

\* the last call raised an error whose message names the expression and the refined type
RaisedMismatch(expr, obj) ==
  /\ call.out.status = "throw"
  /\ Contains(call.out.error.message, expr)
  /\ Contains(call.out.error.message, toType(obj))

\* typeMatches(expr, obj) is true
Matches(expr, obj) ==
  LET m == typeMatches(hasHTMLElement, expr, obj)
  IN  m.status = "return" /\ m.value

HasMarker(expr) == Len(expr) > 0 /\ expr[1] = "?"

\* C1: an expression that starts with "?" matches null and undefined, whatever
\* its candidates, and every optional constructor returns a nullish argument.
C1_NullableMatchesNullish ==
  /\ (call.op = "typeMatches" /\ HasMarker(call.type) /\ IsNullish(call.obj))
       => Returned(TRUE)
  /\ (call.op = "optional" /\ IsNullish(call.obj)) => Returned(call.obj)

\* C2: define(E, v) returns v when typeMatches(E, v) is true and otherwise
\* raises an error whose message contains E as passed and toType(v).
C2_DefineContract ==
  call.op = "define" =>
    IF Matches(call.type, call.obj)
    THEN Returned(call.obj)
    ELSE RaisedMismatch(call.type, call.obj)

\* C3: setType returns iff every entry matches; otherwise it raises the
\* mismatch of the first failing entry, and no later entry is validated.
C3_SetTypeFirstFailure ==
  call.op = "setType" =>
    LET m == call.options
        bad == { i \in 1..Len(m) : ~Matches(m[i].key, m[i].val) }
    IN  IF bad = {}
        THEN call.out.status = "return" /\ call.validated = Len(m)
        ELSE LET f == CHOOSE i \in bad : \A j \in bad : i <= j
             IN  /\ RaisedMismatch(m[f].key, m[f].val)
                 /\ call.validated = f

C6_OnlyTypeMismatch ==
  call.out.status = "throw" =>
    /\ call.op \in {"define", "setType", "required", "optional"}
    /\ call.out.error.name = "Error"
    /\ Contains(call.out.error.message, M_head)

\* the value is an array, a Map or a Set, or an object with an integer length
Countable(v) ==
  \/ v.tag = N_Array
  \/ v.coll \in {"Map", "Set"}
  \/ /\ v.kind = "object"
     /\ GetLength(v).kind = "number"
     /\ GetLength(v).num.cls = "fin"
     /\ GetLength(v).num.n % 100 = 0

\* C7: isCountable(v) is true exactly for arrays, Maps, Sets and objects whose
\* length is integer-valued (as the library is loaded, no global reassigned).
C7_IsCountable ==
  (call.op = "isCountable" /\ globals = StartupGlobals) => Returned(Countable(call.obj))

\* the outcome of the fixed predicate op on obj as the library was loaded
AtStartup(op, obj) ==
  CASE op = "isCountable" -> Ret(typeh_isCountable(StartupGlobals, hasHTMLElement, obj))
    [] op = "isInteger" -> Ret(typeh_isInteger(StartupGlobals, hasHTMLElement, obj))
    [] op = "isDouble" -> Ret(typeh_isDouble(StartupGlobals, hasHTMLElement, obj))
    [] op = "isNumeric" -> typeh_isNumeric(StartupGlobals, hasHTMLElement, obj)
    [] op = "isLong" -> Ret(typeh_isLong(StartupGlobals, hasHTMLElement, obj))
    [] op = "isScalar" -> Ret(typeh_isScalar(StartupGlobals, hasHTMLElement, obj))
    [] op = "isInfinite" -> Ret(typeh_isInfinite(StartupGlobals, hasHTMLElement, obj))

FixedPredicates ==
  {"isCountable", "isInteger", "isDouble", "isNumeric", "isLong", "isScalar", "isInfinite"}

\* C8: whatever the embedding application assigned to the merged global
\* names, a fixed predicate returns what it returned right after startup.
C8_StableAccessors ==
  call.op \in FixedPredicates =>
    /\ call.out.status = AtStartup(call.op, call.obj).status
    /\ call.out.status = "return" =>
         call.out.value = AtStartup(call.op, call.obj).value

\* C9: without marker, typeMatches(E, v) is true iff a candidate before the
\* first "iterable" matches v on its own, or there is a first "iterable", no
\* earlier candidate matches and v has a callable Symbol.iterator.
C9_FirstMatchOrIterable ==
  (call.op = "typeMatches" /\ ~HasMarker(call.type)) =>
    LET cands == Split(call.type, "|")
        iters == { i \in 1..Len(cands) : ToLowerCase(cands[i]) = S_iterable }
        first == IF iters = {} THEN Len(cands) + 1
                 ELSE CHOOSE i \in iters : \A j \in iters : i <= j
        early == \E i \in 1..(first - 1) : Matches(cands[i], call.obj)
    IN  Returned(TRUE) <=>
          \/ early
          \/ (iters # {} /\ ~early /\ ~IsNullish(call.obj) /\ call.obj.iter)

IsSingleCandidate(expr) == \A i \in 1..Len(expr) : expr[i] # "|"

\* C10 as stated: a candidate whose first four characters are the first four
\* characters of the refined type matches.
C10_SharedPrefixMatches ==
  ( /\ call.op = "typeMatches"
    /\ IsSingleCandidate(call.type)
    /\ ToLowerCase(call.type) # S_iterable
    /\ Slice(ToLowerCase(call.type), 0, 4) = Slice(toType(call.obj), 0, 4) )
  => Returned(TRUE)

\* C10 amended: a candidate that is itself the first four characters of the
\* refined type matches, and "bool" and "boolean" both match a boolean value.
C10_ExactPrefixMatches ==
  /\ ( /\ call.op = "typeMatches"
       /\ IsSingleCandidate(call.type)
       /\ ToLowerCase(call.type) # S_iterable
       /\ ToLowerCase(call.type) = Slice(toType(call.obj), 0, 4) )
     => Returned(TRUE)
  /\ ( /\ call.op = "typeMatches"
       /\ call.type \in {S_bool, S_boolean}
       /\ call.obj.kind = "boolean" )
     => Returned(TRUE)

\* C10 witness: "bool" was matched against a boolean, whose refined type is "boolean"
C10_Witness ==
  /\ call.op = "typeMatches"
  /\ call.type = S_bool
  /\ call.obj = BoolV(FALSE)
  /\ toType(call.obj) = S_boolean
  /\ Returned(TRUE)

====
